---------------------------- MODULE Spec2Model ----------------------------
(***************************************************************************)
(* Model of the catalog view controller of Calibre_batchtool:              *)
(* MainWindow (src/gui.py) on top of BookManager (src/book_manager.py).    *)
(* The external library engine is modelled by its book table, its          *)
(* timestamp index and its trash; the controller by the fields of          *)
(* MainWindow and the widgets refresh_table reads.                         *)
(***************************************************************************)
EXTENDS Integers, Sequences, FiniteSets, TLC

\* ------------------------------------------------------------- bounds
\* Books in the library when the window is constructed.
NumBooks == 51
\* Engine mutations (delete, restore, edit) one behaviour may issue.
MaxMutations == 1
\* Largest library of the pagination specification.
MaxLen == 120
\* Edits that may be started in the concurrent-edit specification.
MaxEdits == 2
\* Directories in the trash of the restore specification.
MaxPaths == 3


\* ---------------------------------------------------------- constants
PAGE_SIZE == 50

\* ------------------------------------------------------------ helpers
Max(a, b) == IF a >= b THEN a ELSE b
Min(a, b) == IF a <= b THEN a ELSE b

Range(s) == {s[i] : i \in 1..Len(s)}

\* [bid for bid in s if bid in keep]
Keep(s, keep) == SelectSeq(s, LAMBDA b : b \in keep)

\* s[lo:hi] of Python (0-based, hi exclusive, clipped to the list).
Slice(s, lo, hi) == SubSeq(s, Min(lo, Len(s)) + 1, Min(hi, Len(s)))

\* Put that stores nothing.
PutNothing(d, k, v) == d

\* d[k] = v on a dict modelled as a function.
Put(d, k, v) == [x \in DOMAIN d \cup {k} |-> IF x = k THEN v ELSE d[x]]

EmptyDict == [x \in {} |-> {}]

\* Op applied to the value of v, which is evaluated once.
Call(Op(_), v) == CHOOSE r \in {Op(x) : x \in {v}} : TRUE

\* str.strip() on a text modelled as a sequence of characters.
RECURSIVE LStrip(_)
LStrip(cs) == IF cs # <<>> /\ Head(cs) = " " THEN LStrip(Tail(cs)) ELSE cs

RECURSIVE RStrip(_)
RStrip(cs) ==
    IF cs # <<>> /\ cs[Len(cs)] = " " THEN RStrip(SubSeq(cs, 1, Len(cs) - 1)) ELSE cs

\* Strip that strips nothing.
StripNothing(s) == s

Strip(cs) == RStrip(LStrip(cs))

\* The characters of a text as one string.
RECURSIVE Str(_)
Str(cs) == IF cs = <<>> THEN "" ELSE Head(cs) \o Str(Tail(cs))

\* " and ".join(q)
RECURSIVE JoinAnd(_)
JoinAnd(q) ==
    IF q = <<>> THEN ""
    ELSE IF Len(q) = 1 THEN q[1]
    ELSE q[1] \o " and " \o JoinAnd(Tail(q))

\* --------------------------------------------------- the model's inputs
\* Texts the user types in the search box.
Texts == {<<>>, <<" ">>, <<"a">>}
\* Tag names, in sorted() order; "tx" is only ever written by an edit.
TagOrder == <<"t1", "tx">>
\* Language codes, in sorted() order.
LangOrder == <<"eng">>
\* The book the engine holds for id i at start: the two ends of the
\* timestamp order carry title "a" and tag "t1"; book 2 has no language;
\* no book has a cover image (cover names the image, 0 is no cover).
InitBook(i) ==
    [title     |-> IF i = 1 \/ i = NumBooks THEN "a" ELSE "b",
     tags      |-> IF i = 1 \/ i = NumBooks THEN {"t1"} ELSE {},
     languages |-> IF i = 2 THEN <<>> ELSE <<"eng">>,
     pubdate   |-> <<>>,
     cover     |-> 0]

\* range(hi, 0, -1): ids by descending timestamp.
Descending(hi) == [i \in 1..hi |-> hi + 1 - i]


\* ------------------------------------------------- the library engine
\* The engine's state as BookManager reads it: lib maps each id of the
\* library to its record, order lists the ids by descending timestamp.

\* Cache.multisort([('timestamp', ascending)])
Multisort(e, ascending) ==
    IF ascending THEN [i \in 1..Len(e.order) |-> e.order[Len(e.order) + 1 - i]]
    ELSE e.order

\* Case-insensitive "contains" of the engine's ~ operator, on the model's
\* atoms: no atom is a proper substring of another.
Contains(hay, needle) == hay = needle

TextClause(s) ==
    "(title:\"~" \o s \o "\" or authors:\"~" \o s \o "\" or tags:\"~" \o s
        \o "\" or publisher:\"~" \o s \o "\")"

LangClause(l) == IF l = "none" THEN "languages:false" ELSE "languages:\"=" \o l \o "\""

TagClause(t) == IF t = "none" THEN "tags:false" ELSE "tags:\"=" \o t \o "\""

\* The non-empty search terms the model's texts strip to.
SearchTerms == {Str(Strip(t)) : t \in Texts} \ {""}

\* The ids of the library one clause of the engine's search grammar selects.
ClauseIds(e, c) ==
    LET ids == DOMAIN e.lib IN
    IF c = "languages:false" THEN {b \in ids : e.lib[b].languages = <<>>}
    ELSE IF c = "tags:false" THEN {b \in ids : e.lib[b].tags = {}}
    ELSE IF \E l \in Range(LangOrder) : c = LangClause(l)
    THEN LET l == CHOOSE x \in Range(LangOrder) : c = LangClause(x)
         IN {b \in ids : l \in Range(e.lib[b].languages)}
    ELSE IF \E t \in Range(TagOrder) : c = TagClause(t)
    THEN LET t == CHOOSE x \in Range(TagOrder) : c = TagClause(x)
         IN {b \in ids : t \in e.lib[b].tags}
    ELSE IF \E s \in SearchTerms : c = TextClause(s)
    THEN LET s == CHOOSE x \in SearchTerms : c = TextClause(x)
         IN {b \in ids : Contains(e.lib[b].title, s)
                          \/ \E t \in e.lib[b].tags : Contains(t, s)}
    ELSE {}

\* Cache.search(query): the conjunction of the query's clauses.
RECURSIVE EngineSearch(_, _)
EngineSearch(e, q) ==
    IF q = <<>> THEN DOMAIN e.lib
    ELSE ClauseIds(e, Head(q)) \cap EngineSearch(e, Tail(q))

\* sorted(names of get_categories()[field])
AllLanguages(e) ==
    SelectSeq(LangOrder, LAMBDA l : \E b \in DOMAIN e.lib : l \in Range(e.lib[b].languages))

\* AllTags that returns a fixed vocabulary whatever the books carry.
AllTagsFixed(e) == <<"t1">>

\* sorted(names of get_categories()['tags']): the tags that books carry
\* (book_manager.py lines 169-172).
AllTags(e) ==
    SelectSeq(TagOrder, LAMBDA t : \E b \in DOMAIN e.lib : t \in e.lib[b].tags)

\* Cache.all_field_for('tags', ids): ids the library lacks get the default.
TagMap(e, ids) == [b \in Range(ids) |-> IF b \in DOMAIN e.lib THEN e.lib[b].tags ELSE {}]

\* ------------------------------------------------------- refresh_table
\* tag_filter.currentData(): the checked items' data in row order.
CheckedTags(w) == SelectSeq(w.tag_options, LAMBDA t : t \in w.tag_checked)

\* TagClauses with a clause for 'invalid' as for any other tag.
TagClausesAll(ts) == [j \in 1..Len(ts) |-> TagClause(ts[j])]

RECURSIVE TagClauses(_)
TagClauses(ts) ==
    IF ts = <<>> THEN <<>>
    ELSE (IF Head(ts) = "invalid" THEN <<>> ELSE <<TagClause(Head(ts))>>)
         \o TagClauses(Tail(ts))

\* The clause list q of refresh_table.
BuildQuery(search, lang_target, tag_targets) ==
    (IF search # "" THEN <<TextClause(search)>> ELSE <<>>)
    \o (IF lang_target # "" /\ lang_target # "all" THEN <<LangClause(lang_target)>> ELSE <<>>)
    \o TagClauses(tag_targets)

QueryOf(w) == BuildQuery(Str(Strip(w.search_text)), w.lang_target, CheckedTags(w))

\* final_q, the canonical query string.
FinalQ(w) == JoinAnd(QueryOf(w))

\* TotalPages rounding down.
TotalPagesFloor(n) == n \div PAGE_SIZE

\* (len(filtered_ids) + PAGE_SIZE - 1) // PAGE_SIZE
TotalPages(n) == (n + PAGE_SIZE - 1) \div PAGE_SIZE

\* ClampPage without the upper bound.
ClampPageLower(page, total) == Max(0, page)

\* max(0, min(current_page, total_pages - 1))
ClampPage(page, total) == Max(0, Min(page, total - 1))

\* filtered_ids[current_page*PAGE_SIZE:(current_page+1)*PAGE_SIZE]
PageIds(filtered, page) == Slice(filtered, page * PAGE_SIZE, (page + 1) * PAGE_SIZE)

\* Intersect in ascending id order rather than in the order of sorted.
IntersectAscending(sorted, matched) ==
    LET ids == Range(sorted) \cap matched
        RECURSIVE Asc(_)
        Asc(rest) == IF rest = {} THEN <<>>
                     ELSE LET lo == CHOOSE x \in rest : \A y \in rest : x <= y
                          IN <<lo>> \o Asc(rest \ {lo})
    IN Asc(ids)

\* [bid for bid in sorted_book_ids if bid in matched]
Intersect(sorted, matched) == Keep(sorted, matched)

\* [bid for bid in filtered if any(t not in valid_tags for t in tag_map.get(bid, ()))]
InvalidTagFilter(filtered, tag_map, valid) ==
    SelectSeq(filtered, LAMBDA b : \E t \in tag_map[b] : t \notin valid)

\* MetadataBatchRaises without the early return on an empty page.
MetadataBatchRaisesAlways(page_ids, fail) == "batch" \in fail

\* get_metadata_batch raises: never on an empty page, which returns {}
\* before the first engine call (book_manager.py lines 79-80).
MetadataBatchRaises(page_ids, fail) == page_ids # <<>> /\ "batch" \in fail

\* The try block of refresh_table (lines 594-609).  fail is the set of
\* engine calls that raise if this run reaches them; a missing manager
\* raises at every use.  The result gives filtered_ids, the cache and the
\* calls made.
ApplyFilter(w, e, fail) ==
    LET q == QueryOf(w)
        final_q == JoinAnd(q)
        hit == final_q \in DOMAIN w.search_ids_cache
        miss == final_q # "" /\ ~hit
        search_raises == miss /\ (w.manager = "none" \/ "search" \in fail)
        matched == IF hit THEN w.search_ids_cache[final_q] ELSE EngineSearch(e, q)
        cache1 == IF miss /\ ~search_raises
                  THEN Put(w.search_ids_cache, final_q, matched)
                  ELSE w.search_ids_cache
        base == IF final_q = "" THEN w.sorted_book_ids
                ELSE Intersect(w.sorted_book_ids, matched)
        post == ~search_raises /\ "invalid" \in w.tag_checked
        tags_raise == post /\ (w.manager = "none" \/ "tags" \in fail)
        calls == (IF miss /\ w.manager # "none" THEN <<"search">> ELSE <<>>)
                 \o (IF post /\ w.manager # "none" THEN <<"all_field_for">> ELSE <<>>)
    IN [filtered_ids |-> IF search_raises \/ tags_raise THEN <<>>
                         ELSE IF post
                         THEN InvalidTagFilter(base, TagMap(e, base), w.valid_tags)
                         ELSE base,
        cache  |-> cache1,
        calls  |-> calls,
        caught |-> search_raises \/ tags_raise]

\* The fields get_metadata_batch fetches, in the order of its calls.
BatchFields == <<"title", "authors", "tags", "timestamp", "publisher", "pubdate", "languages">>

\* The BookMetadata of one id; an id the library lacks gets the defaults.
BookMetadata(e, bid) ==
    IF bid \in DOMAIN e.lib
    THEN [id |-> bid, title |-> e.lib[bid].title, tags |-> e.lib[bid].tags,
          languages |-> e.lib[bid].languages, pubdate |-> e.lib[bid].pubdate]
    ELSE [id |-> bid, title |-> "", tags |-> {}, languages |-> <<>>, pubdate |-> <<>>]

\* GetMetadataBatch with one all_field_for call per id and field.
GetMetadataBatchPerId(e, book_ids) ==
    [calls  |-> [j \in 1..(Len(book_ids) * Len(BatchFields)) |->
                    [field |-> BatchFields[((j - 1) % Len(BatchFields)) + 1],
                     ids   |-> <<book_ids[((j - 1) \div Len(BatchFields)) + 1]>>]],
     result |-> [b \in Range(book_ids) |-> BookMetadata(e, b)]]

\* BookManager.get_metadata_batch: the all_field_for calls it makes, each
\* with the ids it is given, and the dict it returns.
GetMetadataBatch(e, book_ids) ==
    IF book_ids = <<>>
    THEN [calls |-> <<>>, result |-> EmptyDict]
    ELSE [calls  |-> [j \in 1..Len(BatchFields) |->
                         [field |-> BatchFields[j], ids |-> book_ids]],
          result |-> [b \in Range(book_ids) |-> BookMetadata(e, b)]]

\* What refresh_table's call of get_metadata_batch did: the fields of the
\* all_field_for calls in order and the id lists they were given.  With
\* no manager the call is never made; a raise is that of the first
\* all_field_for.
BatchRecord(w, e, page_ids, raises) ==
    LET Record(calls) == [fields |-> [j \in 1..Len(calls) |-> calls[j].field],
                          ids    |-> {calls[j].ids : j \in 1..Len(calls)}]
    IN IF w.manager = "none" THEN Record(<<>>)
       ELSE IF raises
       THEN Call(LAMBDA calls : Record(SubSeq(calls, 1, Min(1, Len(calls)))),
                 GetMetadataBatch(e, page_ids).calls)
       ELSE Call(Record, GetMetadataBatch(e, page_ids).calls)

\* BookManager.get_cover: the image of the book, None (0) without one.
GetCover(e, bid) == IF bid \in DOMAIN e.lib THEN e.lib[bid].cover ELSE 0

\* get_cover_pixmap: the cached pixmap of the id if there is one, else
\* the engine's cover.  _pixmap_cache has the key bid for the pixmap and
\* the key "thumb_<bid>" for the icon, here <<"id", bid>> and
\* <<"thumb", bid>>.
GetCoverPixmap(cache, e, bid) ==
    IF <<"id", bid>> \in DOMAIN cache THEN cache[<<"id", bid>>] ELSE GetCover(e, bid)

\* The table loop of refresh_table on _pixmap_cache: every row whose
\* pixmap exists gets both keys unless they are there already; the icon
\* is scaled from the pixmap get_cover_pixmap returned.
CacheCovers(cache, e, page_ids) ==
    LET Store(shown) ==
            [k \in DOMAIN cache \cup {<<"id", b>> : b \in shown}
                                \cup {<<"thumb", b>> : b \in shown} |->
                IF k \in DOMAIN cache THEN cache[k]
                                      ELSE GetCoverPixmap(cache, e, k[2])]
    IN Call(Store, {b \in Range(page_ids) : GetCoverPixmap(cache, e, b) # 0})

\* refresh_table: filter, clamp the page, fetch the page's metadata in one
\* batch and fill the table.  get_metadata_batch is outside the try block:
\* when it raises the exception leaves refresh_table with the table
\* emptied by setRowCount(0).  The fields refreshed, found_empty,
\* requested_page, since_delete and last_run record the run for the
\* properties below.
ShowPage(w, e, f, fail) ==
    LET total == TotalPages(Len(f.filtered_ids))
        page == ClampPage(w.current_page, total)
        Show(page_ids) ==
            LET batch_raises == w.manager = "none" \/ MetadataBatchRaises(page_ids, fail)
                calls == f.calls \o (IF page_ids # <<>> /\ w.manager # "none"
                                     THEN <<"get_metadata_batch">> ELSE <<>>)
            IN [w EXCEPT !.search_ids_cache = f.cache,
                         !.filtered_ids = f.filtered_ids,
                         !.total_pages = total,
                         !.current_page = page,
                         !.books = IF batch_raises THEN w.books
                                   ELSE DOMAIN GetMetadataBatch(e, page_ids).result,
                         !.batch = BatchRecord(w, e, page_ids, batch_raises),
                         !.table = IF batch_raises THEN <<>> ELSE page_ids,
                         !.pixmap_cache = IF batch_raises THEN w.pixmap_cache
                                          ELSE CacheCovers(w.pixmap_cache, e, page_ids),
                         !.calls = w.calls \o calls,
                         !.caught = w.caught \/ f.caught,
                         !.raised = batch_raises,
                         !.refreshed = TRUE,
                         !.since_delete = IF w.since_delete = "pending"
                                          THEN "first" ELSE "no",
                         !.found_empty = w.search_ids_cache = EmptyDict,
                         !.requested_page = w.current_page,
                         !.last_run = [q |-> FinalQ(w),
                                       invalid |-> "invalid" \in w.tag_checked,
                                       caught |-> f.caught]]
    IN Call(Show, PageIds(f.filtered_ids, page))

RefreshTable(w, e, fail) ==
    Call(LAMBDA f : ShowPage(w, e, f, fail), ApplyFilter(w, e, fail))

\* ValidTags that keeps the vocabulary it has.
ValidTagsKept(w, all_tags) == w.valid_tags

\* self.valid_tags = set(all_tags) (line 567).
ValidTags(w, all_tags) == Range(all_tags)

\* ------------------------------------------------ _update_filter_options
\* Rebuilds the options of both facet widgets from the engine and restores
\* the previous choices.  Signals of both widgets are blocked on entry and
\* released only by the last two lines, so a raise in between leaves them
\* blocked and the widgets half rebuilt.
UpdateFilterOptions(w, e, fail) ==
    LET curr_l == w.lang_target
        curr_t == w.tag_checked
        langs_raise == w.manager = "none" \/ "languages" \in fail
        tags_raise == "all_tags" \in fail
        lang_options == <<"all", "none">> \o AllLanguages(e)
        tag_options == <<"none", "invalid">> \o AllTags(e)
        cleared == [w EXCEPT !.signals_blocked = TRUE,
                             !.lang_options = <<"all", "none">>,
                             !.lang_target = "all"]
    IN IF langs_raise
       THEN [cleared EXCEPT !.raised = TRUE,
                            !.calls = w.calls \o (IF w.manager = "none" THEN <<>>
                                                  ELSE <<"get_all_languages">>)]
       ELSE IF tags_raise
       THEN [cleared EXCEPT !.lang_options = lang_options,
                            !.tag_options = <<>>,
                            !.tag_checked = {},
                            !.raised = TRUE,
                            !.calls = w.calls \o <<"get_all_languages", "get_all_tags">>]
       ELSE [w EXCEPT !.signals_blocked = FALSE,
                      !.lang_options = lang_options,
                      !.lang_target = IF curr_l \in Range(lang_options) THEN curr_l ELSE "all",
                      !.tag_options = tag_options,
                      !.tag_checked = curr_t \cap Range(tag_options),
                      !.valid_tags = ValidTags(w, AllTags(e)),
                      !.calls = w.calls \o <<"get_all_languages", "get_all_tags">>]

\* ----------------------------------------------------------- load_books
\* No refresh_table has run since the caches were last invalidated.
NoRun == [q |-> "", invalid |-> FALSE, caught |-> FALSE]

\* The except clause of load_books: the error is shown, nothing is undone.
LoadFailed(w) ==
    [w EXCEPT !.raised = FALSE, !.caught = TRUE, !.msgs = w.msgs \o <<"msg_load_failed">>]

\* LoadIndex that rebuilds without clearing the search cache.
LoadIndexKeepCache(w, e, keep_page) ==
    IF w.cached_sorted_ids = <<>> \/ ~keep_page
    THEN LET ids == Multisort(e, FALSE)
         IN [w EXCEPT !.sorted_book_ids = ids,
                      !.cached_sorted_ids = <<ids>>,
                      !.calls = w.calls \o <<"multisort">>]
    ELSE [w EXCEPT !.sorted_book_ids = w.cached_sorted_ids[1]]

\* LoadIndex that rebuilds whatever keep_page is.
LoadIndexAlways(w, e, keep_page) ==
    LET ids == Multisort(e, FALSE)
    IN [w EXCEPT !.sorted_book_ids = ids,
                 !.cached_sorted_ids = <<ids>>,
                 !.search_ids_cache = EmptyDict,
                 !.last_run = NoRun,
                 !.calls = w.calls \o <<"multisort">>]

\* The index branch of load_books (lines 541-546): rebuild from the engine
\* and clear the search cache, or reuse the cached index.
LoadIndex(w, e, keep_page) ==
    IF w.cached_sorted_ids = <<>> \/ ~keep_page
    THEN LET ids == Multisort(e, FALSE)
         IN [w EXCEPT !.sorted_book_ids = ids,
                      !.cached_sorted_ids = <<ids>>,
                      !.search_ids_cache = EmptyDict,
                      !.last_run = NoRun,
                      !.calls = w.calls \o <<"multisort">>]
    ELSE [w EXCEPT !.sorted_book_ids = w.cached_sorted_ids[1]]

\* LoadPage that goes to the first page whatever keep_page is.
LoadPageFirst(w, keep_page) == 0

\* if not keep_page: self.current_page = 0 (line 549).
LoadPage(w, keep_page) == IF keep_page THEN w.current_page ELSE 0

LoadBooks(w, e, keep_page, fail) ==
    IF w.manager = "none" /\ "open" \in fail
    THEN LoadFailed([w EXCEPT !.load = IF keep_page THEN "keep" ELSE "reset"])
    ELSE LET w1 == [w EXCEPT !.manager = "open",
                             !.load = IF keep_page THEN "keep" ELSE "reset"]
             rebuild == w1.cached_sorted_ids = <<>> \/ ~keep_page
         IN IF rebuild /\ "sort" \in fail
            THEN LoadFailed([w1 EXCEPT !.calls = w.calls \o <<"multisort">>])
            ELSE LET Shown(w5) == IF w5.raised THEN LoadFailed(w5) ELSE w5
                     Show(w4) == IF w4.raised
                                 THEN LoadFailed(w4)
                                 ELSE Call(Shown, RefreshTable(w4, e, fail))
                     Options(w2) ==
                         Call(Show, UpdateFilterOptions(
                                 [w2 EXCEPT !.filtered_ids = w2.sorted_book_ids,
                                            !.current_page = LoadPage(w2, keep_page)],
                                 e, fail))
                 IN Call(Options, LoadIndex(w1, e, keep_page))

\* ------------------------------------------------------------- the state
VARIABLES
    eng,      \* the library engine: lib, order, trash, next_id
    win,      \* MainWindow: its fields, the widgets it reads, and what the
              \* event handler that ran last did (event, calls, msgs, ...)
    workers,  \* the UpdateWorker threads started so far, each with its position
    sigq,     \* signals the workers emitted that the GUI thread has not handled
    ops       \* engine mutations issued so far (bounded by MaxMutations)

vars == <<eng, win, workers, sigq, ops>>

\* The library at start: NumBooks books, and one more that was deleted
\* before and lies in the trash.
Library(n) ==
    [lib     |-> [i \in 1..n |-> InitBook(i)],
     order   |-> Descending(n),
     trash   |-> {[old |-> n + 1, book |-> InitBook(1)]},
     next_id |-> n + 2]

Engine0 == Library(NumBooks)

\* The directories the user can pick in open_library: the library the
\* program was started on, a second library with the same ids and other
\* books, and a directory without metadata.db.  "" is a cancelled dialog.
LibraryPaths == {"lib1", "lib2"}
PathChoices == {"", "nodb"} \cup LibraryPaths

\* The library at start when its two newest books have a cover image.
EngineCovers ==
    [Engine0 EXCEPT !.lib = [i \in DOMAIN Engine0.lib |->
                                [InitBook(i) EXCEPT
                                    !.cover = IF i >= NumBooks - 1 THEN i ELSE 0]]]

\* What BookManager(path) reads from a library directory: the second
\* library has other titles and other cover images under the same ids.
LibraryAt(path) ==
    IF path = "lib1" THEN EngineCovers
    ELSE [EngineCovers EXCEPT !.lib = [i \in DOMAIN EngineCovers.lib |->
                                          [EngineCovers.lib[i] EXCEPT
                                              !.title = "a",
                                              !.cover = IF @ = 0 THEN 0 ELSE @ + NumBooks]],
                              !.trash = {}]

\* No restore_books has run in the handler.
NoRestore ==
    [paths |-> <<>>, attempted |-> <<>>, restored |-> 0,
     inserted |-> {}, removed |-> {}, parents |-> {}, partial |-> {}]

\* The fields as __init__ sets them before it calls load_books.  From
\* event on, the fields are a record of the handler that ran last: its
\* name, whether it ran load_books (load) and refresh_table (refreshed),
\* whether that refresh_table was the first since a delete (since_delete)
\* and found the search cache empty (found_empty), the page it was asked
\* for (requested_page), the query of the last refresh_table since the
\* caches were emptied (last_run), the engine calls made (calls), the
\* message boxes shown (msgs), whether an exception was caught by the
\* handler (caught) or left it (raised), and for restore_books the paths
\* it was given, those its loop reached, its count, the paths whose book
\* was inserted whole, the source directories and the parents it removed,
\* and the paths whose entry was created before add_format or set_cover
\* raised (restore).
Window0 ==
    [library_path      |-> "lib1",
     manager           |-> "none",
     books             |-> {},
     sorted_book_ids   |-> <<>>,
     filtered_ids      |-> <<>>,
     current_page      |-> 0,
     total_pages       |-> 0,
     valid_tags        |-> {},
     search_ids_cache  |-> EmptyDict,
     cached_sorted_ids |-> <<>>,
     pixmap_cache      |-> EmptyDict,
     batch             |-> [fields |-> <<>>, ids |-> {}],
     timer_active      |-> FALSE,
     search_text       |-> <<>>,
     lang_options      |-> <<>>,
     lang_target       |-> "",
     tag_options       |-> <<>>,
     tag_checked       |-> {},
     signals_blocked   |-> FALSE,
     table             |-> <<>>,
     mode              |-> "idle",
     event             |-> "init",
     load              |-> "none",
     since_delete      |-> "no",
     refreshed         |-> FALSE,
     found_empty       |-> TRUE,
     requested_page    |-> 0,
     last_run          |-> NoRun,
     calls             |-> <<>>,
     msgs              |-> <<>>,
     caught            |-> FALSE,
     raised            |-> FALSE,
     restore           |-> NoRestore]

\* An event handler starts: what the previous one did is forgotten.
Begin(w, name) ==
    [w EXCEPT !.event = name, !.calls = <<>>, !.msgs = <<>>,
              !.caught = FALSE, !.raised = FALSE, !.refreshed = FALSE,
              !.load = "none",
              !.restore = NoRestore,
              !.since_delete = IF w.since_delete = "first" THEN "no" ELSE w.since_delete]

\* MainWindow.__init__ ends with load_books().
Init ==
    /\ eng = Engine0
    /\ \E fail \in {{}, {"open"}} : win = LoadBooks(Window0, eng, FALSE, fail)
    /\ workers = EmptyDict
    /\ sigq = <<>>
    /\ ops = 0

\* The same start on the library whose newest books have covers.
InitCovers ==
    /\ eng = EngineCovers
    /\ \E fail \in {{}, {"open"}} : win = LoadBooks(Window0, eng, FALSE, fail)
    /\ workers = EmptyDict
    /\ sigq = <<>>
    /\ ops = 0

\* ------------------------------------------------------- user interface
\* The main window takes input only while no modal dialog is open.
Idle == win.mode = "idle"

\* search_edit.textChanged -> filter_books: (re)start the single-shot timer.
filter_books(t) ==
    /\ Idle
    /\ t # win.search_text
    /\ win' = [Begin(win, "filter_books") EXCEPT !.search_text = t, !.timer_active = TRUE]
    /\ UNCHANGED <<eng, workers, sigq, ops>>

\* search_timer.timeout -> _do_search_refresh.  Timers also fire in the
\* event loop of a modal dialog.
do_search_refresh(fail) ==
    /\ win.timer_active
    /\ win' = RefreshTable([Begin(win, "refresh_table") EXCEPT !.timer_active = FALSE],
                           eng, fail)
    /\ UNCHANGED <<eng, workers, sigq, ops>>

\* lang_filter.currentIndexChanged -> refresh_table, unless blocked.
lang_changed(l, fail) ==
    /\ Idle
    /\ l \in Range(win.lang_options)
    /\ l # win.lang_target
    /\ LET w == [Begin(win, "lang_changed") EXCEPT !.lang_target = l]
       IN win' = IF win.signals_blocked THEN w ELSE RefreshTable(w, eng, fail)
    /\ UNCHANGED <<eng, workers, sigq, ops>>

\* A click on a row of tag_filter toggles it: changed -> refresh_table,
\* unless blocked.
tag_changed(t, fail) ==
    /\ Idle
    /\ t \in Range(win.tag_options)
    /\ LET w == [Begin(win, "tag_changed") EXCEPT
                    !.tag_checked = IF t \in win.tag_checked
                                    THEN win.tag_checked \ {t}
                                    ELSE win.tag_checked \cup {t}]
       IN win' = IF win.signals_blocked THEN w ELSE RefreshTable(w, eng, fail)
    /\ UNCHANGED <<eng, workers, sigq, ops>>

prev_page(fail) ==
    /\ Idle
    /\ win.current_page > 0
    /\ win' = RefreshTable([Begin(win, "refresh_table") EXCEPT !.current_page = win.current_page - 1],
                           eng, fail)
    /\ UNCHANGED <<eng, workers, sigq, ops>>

next_page(fail) ==
    /\ Idle
    /\ win.current_page < win.total_pages - 1
    /\ win' = RefreshTable([Begin(win, "refresh_table") EXCEPT !.current_page = win.current_page + 1],
                           eng, fail)
    /\ UNCHANGED <<eng, workers, sigq, ops>>

\* refresh_btn.clicked -> load_books(checked = False).
refresh_clicked(fail) ==
    /\ Idle
    /\ win' = LoadBooks(Begin(win, "load_books"), eng, FALSE, fail)
    /\ UNCHANGED <<eng, workers, sigq, ops>>

\* file_menu action -> open_library: the chosen directory becomes
\* library_path and the manager is dropped before load_books() opens it.
\* eng is the library at library_path as BookManager reads it.
open_library(path, fail) ==
    /\ Idle
    /\ path \in PathChoices
    /\ LET w == Begin(win, "open_library")
       IN IF path \in LibraryPaths
          THEN /\ eng' = LibraryAt(path)
               /\ win' = LoadBooks([w EXCEPT !.library_path = path, !.manager = "none"],
                                   eng', FALSE, fail)
          ELSE /\ win' = IF path = "" THEN w
                                      ELSE [w EXCEPT !.msgs = <<"msg_invalid_path">>]
               /\ UNCHANGED eng
    /\ UNCHANGED <<workers, sigq, ops>>

\* lang_menu action -> change_language: the texts are set again, then
\* _update_filter_options() and refresh_table() run, neither inside a try.
change_language(fail) ==
    /\ Idle
    /\ win' = Call(LAMBDA w : IF w.raised THEN w ELSE RefreshTable(w, eng, fail),
                   UpdateFilterOptions(Begin(win, "change_language"), eng, fail))
    /\ UNCHANGED <<eng, workers, sigq, ops>>

\* ------------------------------------------------ delete, trash, restore
\* InvalidateIds that drops the index and keeps the search cache.
InvalidateIndexOnly(w) ==
    [w EXCEPT !.cached_sorted_ids = <<>>]

\* self._cached_sorted_ids = None; self._search_ids_cache.clear()
\* (lines 768-769 and 783-784).
InvalidateIds(w) ==
    [w EXCEPT !.cached_sorted_ids = <<>>,
              !.search_ids_cache = EmptyDict,
              !.last_run = NoRun]

\* PopCovers that drops the pixmap and keeps the icon.
PopPixmapOnly(cache, bids) ==
    [k \in {k \in DOMAIN cache : k[1] = "thumb" \/ k[2] \notin bids} |-> cache[k]]

\* for bid in bids: _pixmap_cache.pop(bid, None);
\* _pixmap_cache.pop(f"thumb_{bid}", None) (lines 770-772).
PopCovers(cache, bids) ==
    [k \in {k \in DOMAIN cache : k[2] \notin bids} |-> cache[k]]

\* Cache.remove_books(ids, permanent=False): the books move to the trash.
RemoveBooks(e, ids) ==
    LET gone == ids \cap DOMAIN e.lib
    IN [e EXCEPT !.lib = [b \in DOMAIN e.lib \ gone |-> e.lib[b]],
                 !.order = SelectSeq(e.order, LAMBDA b : b \notin gone),
                 !.trash = e.trash \cup {[old |-> b, book |-> e.lib[b]] : b \in gone}]

\* Cache.create_book_entry(mi): a new id, the newest timestamp.
CreateBookEntry(e, book) ==
    [e EXCEPT !.lib = [b \in DOMAIN e.lib \cup {e.next_id} |->
                          IF b = e.next_id THEN book ELSE e.lib[b]],
              !.order = <<e.next_id>> \o e.order,
              !.next_id = e.next_id + 1]

\* restore_books on one trash directory that holds book files.  The entry
\* is created first; the directory is removed only after every format and
\* the cover were added, so a raise in between keeps both.
RestoreBook(e, item, fail) ==
    IF "create_book_entry" \in fail THEN e
    ELSE IF fail \cap {"add_format", "set_cover", "rmtree"} # {}
    THEN CreateBookEntry(e, item.book)
    ELSE [CreateBookEntry(e, item.book) EXCEPT !.trash = e.trash \ {item}]

\* get_selected_books: the checked rows whose id has a metadata copy.
Rows(w) == SelectSeq(w.table, LAMBDA b : b \in w.books)

\* The selections the model's user makes: nothing, or the first row.
Selections(w) == {<<>>} \cup (IF Rows(w) = <<>> THEN {} ELSE {<<Rows(w)[1]>>})

\* DeleteFailed that has dropped the index and the search cache.
DeleteFailedInvalidated(w) ==
    [InvalidateIds(w) EXCEPT !.msgs = <<"msg_delete_confirm", "msg_delete_failed">>,
                             !.calls = <<"remove_books">>,
                             !.caught = TRUE]

\* delete_books raises: the statements after it in the try block are
\* skipped and the except clause shows the error (lines 765-776).
DeleteFailed(w) ==
    [w EXCEPT !.msgs = <<"msg_delete_confirm", "msg_delete_failed">>,
              !.calls = <<"remove_books">>,
              !.caught = TRUE]

\* delete_selected up to its success message box (lines 743-773).
delete_selected(sel, reply, fail) ==
    /\ Idle
    /\ sel \in Selections(win)
    /\ LET w == Begin(win, "delete_selected")
       IN IF sel = <<>>
          THEN /\ win' = [w EXCEPT !.msgs = <<"msg_no_selection">>]
               /\ UNCHANGED <<eng, ops>>
          ELSE IF reply = "No"
          THEN /\ win' = [w EXCEPT !.msgs = <<"msg_delete_confirm">>]
               /\ UNCHANGED <<eng, ops>>
          ELSE IF "remove_books" \in fail
          THEN /\ win' = DeleteFailed(w)
               /\ UNCHANGED <<eng, ops>>
          ELSE /\ ops < MaxMutations
               /\ eng' = RemoveBooks(eng, Range(sel))
               /\ ops' = ops + 1
               /\ win' = [InvalidateIds(w) EXCEPT
                                   !.pixmap_cache = PopCovers(w.pixmap_cache, Range(sel)),
                                   !.since_delete = "pending",
                                   !.msgs = <<"msg_delete_confirm", "msg_delete_success">>,
                                   !.calls = <<"remove_books">>,
                                   !.mode = "delete_msg"]
    /\ UNCHANGED <<workers, sigq>>

\* The success message box of delete_selected is closed: load_books().
delete_msg_closed(fail) ==
    /\ win.mode = "delete_msg"
    /\ win' = LoadBooks([Begin(win, "delete_selected") EXCEPT !.mode = "idle"],
                        eng, FALSE, fail)
    /\ UNCHANGED <<eng, workers, sigq, ops>>

\* browse_trash up to dialog.exec(): TrashDialog lists the trash.
browse_trash ==
    /\ Idle
    /\ win.manager = "open"
    /\ win' = [Begin(win, "browse_trash") EXCEPT !.mode = "trash", !.calls = <<"list_trash">>]
    /\ UNCHANGED <<eng, workers, sigq, ops>>

\* TrashDialog.restore_selected on one checked row.
restore_selected(item, fail) ==
    /\ win.mode = "trash"
    /\ item \in eng.trash
    /\ ops < MaxMutations
    /\ eng' = RestoreBook(eng, item, fail)
    /\ ops' = ops + 1
    /\ win' = [Begin(win, "restore_selected") EXCEPT !.calls = <<"restore_books">>]
    /\ UNCHANGED <<workers, sigq>>

\* What restore_books may find at a path: a directory with book files
\* that the engine takes ("ok"), no directory ("missing"), a directory
\* without a book file ("no_format"), a path whose iterdir() raises
\* ("unlistable"), or a directory with book files for which
\* create_book_entry, add_format, set_cover, shutil.rmtree or the removal
\* of the emptied parent raises.
PathStates ==
    {"ok", "missing", "no_format", "unlistable", "create_error", "add_error",
     "cover_error", "rmtree_error", "rmdir_error"}

\* The author directory a trash directory lies in
\* (.caltrash/<author>/<title> (<id>)): the first two directories of the
\* restore specification have the same author, every other its own.
AuthorDir(item) ==
    IF item.old \in {NumBooks + 1, NumBooks + 2} THEN NumBooks + 1 ELSE item.old

\* not any(parent.iterdir()) once the directory of item was removed.
ParentEmpty(e, item) ==
    \A other \in e.trash \ {item} : AuthorDir(other) # AuthorDir(item)

\* One pass of the loop of restore_books (book_manager.py lines 239-297)
\* on path j.  exists() and iterdir() are outside the try block; the
\* engine calls, rmtree and the removal of the parent are inside it, and
\* restored is counted last.
RestorePath(run, item, found) ==
    LET tried == [run EXCEPT !.attempted = Append(run.attempted, item.old)]
        fail == IF found = "create_error" THEN {"create_book_entry"}
                ELSE IF found = "add_error" THEN {"add_format"}
                ELSE IF found = "cover_error" THEN {"set_cover"}
                ELSE IF found = "rmtree_error" THEN {"rmtree"}
                ELSE {}
        empty == ParentEmpty(run.eng, item)
    IN IF found = "missing"
       THEN [tried EXCEPT !.eng = [run.eng EXCEPT !.trash = run.eng.trash \ {item}]]
       ELSE IF found = "no_format" THEN tried
       ELSE IF found = "unlistable" THEN [tried EXCEPT !.raised = TRUE]
       ELSE IF fail # {}
       THEN [tried EXCEPT !.eng = RestoreBook(run.eng, item, fail),
                          !.inserted = IF found = "rmtree_error"
                                       THEN run.inserted \cup {item.old}
                                       ELSE run.inserted,
                          !.partial = IF found \in {"add_error", "cover_error"}
                                      THEN run.partial \cup {item.old}
                                      ELSE run.partial]
       ELSE [tried EXCEPT !.eng = RestoreBook(run.eng, item, {}),
                          !.inserted = run.inserted \cup {item.old},
                          !.removed = run.removed \cup {item.old},
                          !.parents = IF empty /\ found = "ok"
                                      THEN run.parents \cup {AuthorDir(item)}
                                      ELSE run.parents,
                          !.restored = IF empty /\ found = "rmdir_error"
                                       THEN run.restored
                                       ELSE run.restored + 1]

\* restore_books(paths): the loop, left at once by an exception.
RECURSIVE RestoreFrom(_, _, _, _)
RestoreFrom(run, paths, found, j) ==
    IF j > Len(paths) \/ run.raised THEN run
    ELSE Call(LAMBDA r : RestoreFrom(r, paths, found, j + 1),
              RestorePath(run, paths[j], found[j]))

RestoreBooks(e, paths, found) ==
    RestoreFrom([eng |-> e, restored |-> 0, attempted |-> <<>>, raised |-> FALSE,
                 inserted |-> {}, removed |-> {}, parents |-> {}, partial |-> {}],
                paths, found, 1)

\* The rows of the trash table, in the order list_trash gives them.
TrashRows(e) ==
    LET olds == {item.old : item \in e.trash}
        RECURSIVE Sorted(_)
        Sorted(rest) == IF rest = {} THEN <<>>
                        ELSE LET lo == CHOOSE x \in rest : \A y \in rest : x <= y
                             IN <<CHOOSE item \in e.trash : item.old = lo>>
                                \o Sorted(rest \ {lo})
    IN Sorted(olds)

\* The checked rows: any rows of the table, in table order.
CheckedPaths(e) ==
    {Keep(TrashRows(e), keep) : keep \in SUBSET e.trash} \ {<<>>}

\* TrashDialog.restore_selected on the checked rows (lines 267-278).
restore_checked(paths, found) ==
    /\ win.mode = "trash"
    /\ paths \in CheckedPaths(eng)
    /\ Len(found) = Len(paths)
    /\ ops < MaxMutations
    /\ ops' = ops + 1
    /\ LET run == RestoreBooks(eng, paths, found)
           w == [Begin(win, "restore_selected") EXCEPT
                    !.restore = [paths |-> [j \in 1..Len(paths) |-> paths[j].old],
                                 attempted |-> run.attempted,
                                 restored |-> run.restored,
                                 inserted |-> run.inserted,
                                 partial |-> run.partial,
                                 removed |-> run.removed,
                                 parents |-> run.parents]]
       IN /\ eng' = run.eng
          /\ win' = IF run.raised
                    THEN [w EXCEPT !.calls = <<"restore_books">>,
                                   !.caught = TRUE,
                                   !.msgs = <<"msg_restore_failed">>]
                    ELSE [w EXCEPT !.calls = <<"restore_books", "list_trash">>,
                                   !.msgs = <<"msg_restore_success">>]
    /\ UNCHANGED <<workers, sigq>>

\* The trash dialog is closed: the rest of browse_trash (lines 783-785).
trash_closed(fail) ==
    /\ win.mode = "trash"
    /\ win' = LoadBooks(InvalidateIds([Begin(win, "browse_trash") EXCEPT !.mode = "idle"]),
                        eng, FALSE, fail)
    /\ UNCHANGED <<eng, workers, sigq, ops>>

\* ------------------------------------------------------- UpdateWorker
\* datetime.strptime(v, '%Y-%m-%d') succeeds on a date <<y, m, d>>.
DaysIn(y, m) ==
    IF m \in {4, 6, 9, 11} THEN 30
    ELSE IF m = 2 THEN (IF y % 4 = 0 /\ (y % 100 # 0 \/ y % 400 = 0) THEN 29 ELSE 28)
    ELSE 31

ValidDate(v) ==
    /\ Len(v) = 3
    /\ v[1] \in 1..9999
    /\ v[2] \in 1..12
    /\ v[3] \in 1..DaysIn(v[1], v[2])

\* Cache.set_field(f, {bid: v}); an id the library lacks is ignored.
SetField(e, f, bid, v) ==
    IF bid \notin DOMAIN e.lib THEN e
    ELSE IF f = "title" THEN [e EXCEPT !.lib[bid].title = v]
    ELSE IF f = "tags" THEN [e EXCEPT !.lib[bid].tags = v]
    ELSE IF f = "languages" THEN [e EXCEPT !.lib[bid].languages = v]
    ELSE IF f = "pubdate" THEN [e EXCEPT !.lib[bid].pubdate = v]
    ELSE e

\* ------------------------------------------- double-precision arithmetic
\* int((i + 1) / total * 100) is computed in IEEE-754 binary64: the
\* quotient is rounded to 53 significant bits, the product with 100 is
\* rounded again, and int() truncates.  Numbers are sequences of bits,
\* most significant first.
MantissaBits == 53

\* Round a bit sequence to its first keep bits, to nearest, ties to even.
\* sticky tells that non-zero bits follow the sequence.
RoundBits(bits, keep, sticky) ==
    IF Len(bits) <= keep THEN bits
    ELSE LET head == SubSeq(bits, 1, keep)
             rest == SubSeq(bits, keep + 1, Len(bits))
             more == sticky \/ \E j \in 2..Len(rest) : rest[j] = 1
             up == rest[1] = 1 /\ (more \/ head[keep] = 1)
             ones == CHOOSE m \in 0..keep :
                        /\ \A j \in (keep - m + 1)..keep : head[j] = 1
                        /\ m < keep => head[keep - m] = 0
         IN IF ~up THEN head
            ELSE IF ones = keep THEN <<1>> \o [j \in 1..keep |-> 0]
            ELSE [j \in 1..keep |-> IF j < keep - ones THEN head[j]
                                    ELSE IF j = keep - ones THEN 1 ELSE 0]

\* 2^d modulo den, by repeated squaring.
RECURSIVE PowerMod(_, _)
PowerMod(d, den) ==
    IF d = 0 THEN 1 % den
    ELSE LET h == PowerMod(d \div 2, den)
         IN (((h * h) % den) * (IF d % 2 = 1 THEN 2 ELSE 1)) % den

\* The value the quotient num/den rounds to: [zeros, bits] stands for
\* 0.bits * 2^-zeros, bits starting with a 1.
Quotient(num, den) ==
    LET zeros == CHOOSE z \in 0..31 : num * (2 ^ z) < den /\ 2 * num * (2 ^ z) >= den
        lead == num * (2 ^ zeros)
        \* the remainder after d binary digits of lead/den
        rem == [d \in 0..(MantissaBits + 1) |-> (lead * PowerMod(d, den)) % den]
        digits == [d \in 1..(MantissaBits + 1) |-> IF 2 * rem[d - 1] >= den THEN 1 ELSE 0]
    IN [zeros |-> zeros,
        bits  |-> RoundBits(digits, MantissaBits, rem[MantissaBits + 1] # 0)]

\* The natural number a short bit sequence denotes.
Value(bits) ==
    LET RECURSIVE V(_)
        V(j) == IF j = 0 THEN 0 ELSE 2 * V(j - 1) + bits[j]
    IN V(Len(bits))

\* bits * factor for a factor below 2^LimbBits, exactly: the bits are
\* multiplied in limbs of LimbBits bits, lowest first.
LimbBits == 14

Times(bits, factor) ==
    LET n == Len(bits)
        limbs == (n + LimbBits - 1) \div LimbBits
        base == 2 ^ LimbBits
        Limb(c) == Value(SubSeq(bits, Max(1, n - LimbBits * c - (LimbBits - 1)),
                                n - LimbBits * c))
        RECURSIVE Carry(_)
        Carry(c) == IF c = 0 THEN 0 ELSE (Limb(c - 1) * factor + Carry(c - 1)) \div base
        product == [c \in 0..limbs |-> IF c = limbs THEN Carry(limbs)
                                       ELSE (Limb(c) * factor + Carry(c)) % base]
        m == (limbs + 1) * LimbBits
        all == [j \in 1..m |-> (product[(m - j) \div LimbBits]
                                  \div (2 ^ ((m - j) % LimbBits))) % 2]
        first == CHOOSE j \in 1..m : all[j] = 1 /\ \A i \in 1..(j - 1) : all[i] = 0
    IN SubSeq(all, first, m)

\* int(num / den * 100) for 0 < num <= den.
FloatPercent(num, den) ==
    IF num = den THEN 100
    ELSE LET q == Quotient(num, den)
             exact == Times(q.bits, 100)
             product == RoundBits(exact, MantissaBits, FALSE)
             \* q.bits has weight 2^-(zeros + its length): the integer part
             \* of the product is what stands left of the binary point.
             scale == q.zeros + Len(q.bits) - (Len(exact) - Len(product))
             whole == Len(product) - scale
         IN IF whole <= 0 THEN 0 ELSE Value(SubSeq(product, 1, whole))

\* int((i + 1) / total * 100) for the i-th book (1-based here).
Percent(i, total) == FloatPercent(i, total)

Emit(q, sig) == Append(q, sig)

\* The update mappings the model's edit dialog returns, in dict order.
UpdateChoices == {<< <<"title", "b">> >>}

\* UpdateWorker.__init__, with the position of run (pc, book i, field f),
\* whether an exception is on its way to the outer except (error),
\* whether any engine call of the run raised (failed), and what run did
\* so far (trace): <<call or signal, book id or value, field>>.
NewWorker(bids, updates) ==
    [bids |-> bids, updates |-> updates, pc |-> "start", i |-> 1, f |-> 1,
     error |-> FALSE, failed |-> FALSE, trace |-> <<>>]

Did(wk, op, n, fld) == [wk EXCEPT !.trace = Append(wk.trace, <<op, n, fld>>)]

\* The signals run emitted between two of its positions, for the queue
\* of the GUI thread.
Signals(k, old, new) ==
    LET added == SubSeq(new.trace, Len(old.trace) + 1, Len(new.trace))
        sigs == SelectSeq(added, LAMBDA t : t[1] \in {"progress", "finished"})
    IN [j \in 1..Len(sigs) |-> [from |-> k, name |-> sigs[j][1], value |-> sigs[j][2]]]

\* _do_edit once the dialog was accepted with a non-empty mapping
\* (lines 816-847): a worker is created and started behind a
\* window-modal progress dialog.
do_edit(sel, upd, fail) ==
    /\ Idle
    /\ sel # <<>>
    /\ win.manager = "open"
    /\ IF "languages" \in fail
       THEN /\ win' = [Begin(win, "_do_edit") EXCEPT !.calls = <<"get_all_languages">>,
                                                      !.raised = TRUE]
            /\ UNCHANGED <<workers, ops>>
       ELSE /\ ops < MaxMutations
            /\ ops' = ops + 1
            /\ workers' = Put(workers, ops + 1, NewWorker(sel, upd))
            /\ win' = [Begin(win, "_do_edit") EXCEPT !.calls = <<"get_all_languages">>,
                                                      !.mode = "progress"]
    /\ UNCHANGED <<eng, sigq>>

\* CheckableComboBox.currentData() after addItems(all_tags) and
\* setCheckedItems(targets): the rows whose data is in targets, in row
\* order.
CurrentData(all_tags, targets) == SelectSeq(all_tags, LAMBDA t : t \in targets)

\* EditDialog(sel).get_updates() when the dialog of one book is accepted
\* as setup_ui filled it: the title and the first language as shown, and
\* always the tags the combo box has checked.
GetUpdates(book, all_tags) ==
    (IF book.title # "" THEN << <<"title", book.title>> >> ELSE <<>>)
    \o (IF book.languages # <<>>
        THEN << <<"languages", <<book.languages[1]>> >> >> ELSE <<>>)
    \o << <<"tags", Range(CurrentData(all_tags, book.tags))>> >>

\* _do_edit on one selected book whose dialog is accepted unchanged;
\* all_tags are the lines of tags.txt.  sel holds the metadata copies of
\* the last refresh_table.
edit_accepted(sel, all_tags) ==
    /\ Len(sel) = 1
    /\ do_edit(sel, GetUpdates(BookMetadata(eng, sel[1]), all_tags), {})

\* run: start_bulk_update().  A raise goes to the outer except, which
\* emits finished(False, ...).
RunStart(wk, fail) ==
    LET started == Did(wk, "start_bulk_update", 0, "")
    IN IF "bulk" \in fail
       THEN [Did(started, "finished", 0, "") EXCEPT !.pc = "done", !.failed = TRUE]
       ELSE [started EXCEPT !.pc = "loop"]

worker_start(k, fail) ==
    /\ k \in DOMAIN workers
    /\ workers[k].pc = "start"
    /\ LET wk == RunStart(workers[k], fail)
       IN /\ workers' = [workers EXCEPT ![k] = wk]
          /\ sigq' = sigq \o Signals(k, workers[k], wk)
    /\ UNCHANGED <<eng, win, ops>>

\* The bare except around the date field (lines 146-150).
Swallowed(fld) == fld = "pubdate"

\* FieldCalled without the date check.
FieldCalledAlways(wk) == TRUE

\* set_field is reached for field f of book i: always, but for a pubdate
\* only when strptime accepted the text.
FieldCalled(wk) ==
    wk.updates[wk.f][1] # "pubdate" \/ ValidDate(wk.updates[wk.f][2])

\* run: one pass of the inner loop, field f of book i, and the progress
\* signal after the last field of a book.  A pubdate that does not parse,
\* or whose set_field raises, is passed over by the bare except; a raise
\* on another field leaves both loops.
RunField(wk, fail) ==
    LET bid == wk.bids[wk.i]
        fld == wk.updates[wk.f][1]
        total == Len(wk.bids)
        called == FieldCalled(wk)
        raises == called /\ "set_field" \in fail
        tried == IF called THEN Did(wk, "set_field", bid, fld) ELSE wk
        last_field == wk.f = Len(wk.updates)
        last_book == wk.i = total
        next == [tried EXCEPT
                    !.f = IF last_field THEN 1 ELSE wk.f + 1,
                    !.i = IF last_field /\ ~last_book THEN wk.i + 1 ELSE wk.i,
                    !.pc = IF last_field /\ last_book THEN "end" ELSE "loop",
                    !.failed = wk.failed \/ raises]
    IN IF raises /\ ~Swallowed(fld)
       THEN [tried EXCEPT !.pc = "end", !.error = TRUE, !.failed = TRUE]
       ELSE IF last_field THEN Did(next, "progress", Percent(wk.i, total), "")
       ELSE next

worker_field(k, fail) ==
    /\ k \in DOMAIN workers
    /\ workers[k].pc = "loop"
    /\ LET old == workers[k]
           wk == RunField(old, fail)
           writes == FieldCalled(old) /\ "set_field" \notin fail
       IN /\ eng' = IF writes
                    THEN SetField(eng, old.updates[old.f][1], old.bids[old.i],
                                  old.updates[old.f][2])
                    ELSE eng
          /\ workers' = [workers EXCEPT ![k] = wk]
          /\ sigq' = sigq \o Signals(k, old, wk)
    /\ UNCHANGED <<win, ops>>

\* RunEnd that emits finished without the finally clause.
RunEndNoCommit(wk, fail) ==
    [Did(wk, "finished", IF wk.error THEN 0 ELSE 1, "") EXCEPT !.pc = "done"]

\* RunEnd that emits finished before the finally clause has run.
RunEndFinishedFirst(wk, fail) ==
    LET raises == "bulk" \in fail
        told == Did(wk, "finished", IF wk.error \/ raises THEN 0 ELSE 1, "")
    IN [Did(told, "end_bulk_update", 0, "")
           EXCEPT !.pc = "done", !.failed = wk.failed \/ raises]

\* run: the finally clause, then finished(True, "") or the outer except.
RunEnd(wk, fail) ==
    LET raises == "bulk" \in fail
        ended == Did(wk, "end_bulk_update", 0, "")
    IN [Did(ended, "finished", IF wk.error \/ raises THEN 0 ELSE 1, "")
           EXCEPT !.pc = "done", !.failed = wk.failed \/ raises]

worker_end(k, fail) ==
    /\ k \in DOMAIN workers
    /\ workers[k].pc = "end"
    /\ LET wk == RunEnd(workers[k], fail)
       IN /\ workers' = [workers EXCEPT ![k] = wk]
          /\ sigq' = sigq \o Signals(k, workers[k], wk)
    /\ UNCHANGED <<eng, win, ops>>

\* on_progress: progress.setValue(value).  Reaching the maximum resets
\* and hides the progress dialog.
on_progress ==
    /\ sigq # <<>>
    /\ Head(sigq).name = "progress"
    /\ sigq' = Tail(sigq)
    /\ win' = [Begin(win, "on_progress") EXCEPT
                  !.mode = IF win.mode = "progress" /\ Head(sigq).value = 100
                           THEN "idle" ELSE win.mode]
    /\ UNCHANGED <<eng, workers, ops>>

\* self._search_ids_cache.clear() of on_finished (line 838).
ClearSearchCache(w) ==
    [w EXCEPT !.search_ids_cache = EmptyDict, !.last_run = NoRun]

\* on_finished(success, error_msg) of _do_edit (lines 834-843).
on_finished(fail) ==
    /\ sigq # <<>>
    /\ Head(sigq).name = "finished"
    /\ sigq' = Tail(sigq)
    /\ workers' = [k \in DOMAIN workers \ {Head(sigq).from} |-> workers[k]]
    /\ LET w == [Begin(win, "on_finished") EXCEPT
                    !.mode = IF win.mode = "progress" THEN "idle" ELSE win.mode]
       IN win' = IF Head(sigq).value = 1
                 THEN Call(LAMBDA w1 : [w1 EXCEPT !.msgs = w1.msgs \o <<"msg_update_success">>],
                           LoadBooks(ClearSearchCache(w), eng, TRUE, fail))
                 ELSE [w EXCEPT !.msgs = <<"msg_update_failed">>]
    /\ UNCHANGED <<eng, ops>>

\* Inputs of the filter specification.
LangPicks == {"all", "none"}
TagPicks == {"invalid"}
\* The calls that may raise while refresh_table runs, and while load_books runs.
RefreshFails == {{}, {"search"}, {"tags"}, {"batch"}, {"search", "batch"}, {"tags", "batch"}}
LoadFails == {{"sort"}, {"languages"}, {"all_tags"}} \cup RefreshFails
\* The calls that may raise while change_language runs.
ChangeFails == {{}, {"languages"}, {"all_tags"}, {"batch"}}

Next ==
    \/ \E t \in Texts : filter_books(t)
    \/ \E fail \in RefreshFails : do_search_refresh(fail)
    \/ \E l \in LangPicks, fail \in RefreshFails : lang_changed(l, fail)
    \/ \E t \in TagPicks, fail \in RefreshFails : tag_changed(t, fail)
    \/ \E fail \in RefreshFails : prev_page(fail)
    \/ \E fail \in RefreshFails : next_page(fail)
    \/ \E fail \in LoadFails : refresh_clicked(fail)
    \/ \E fail \in ChangeFails : change_language(fail)

\* Inputs of the mutation specification.
MTexts == {<<>>, <<"a">>}
MTagPicks == {"invalid"}
MLoadFails == {{}, {"sort"}}
MRefreshFails == {{}, {"search"}}

NextM ==
    \/ \E t \in MTexts : filter_books(t)
    \/ \E fail \in MRefreshFails : do_search_refresh(fail)
    \/ \E t \in MTagPicks, fail \in MRefreshFails : tag_changed(t, fail)
    \/ \E fail \in MRefreshFails : prev_page(fail)
    \/ \E fail \in MRefreshFails : next_page(fail)
    \/ \E fail \in MLoadFails : refresh_clicked(fail)
    \/ \E sel \in Selections(win) \ {<<>>} : delete_selected(sel, "Yes", {})
    \/ \E fail \in MLoadFails : delete_msg_closed(fail)
    \/ browse_trash
    \/ \E item \in eng.trash : restore_selected(item, {})
    \/ \E fail \in MLoadFails : trash_closed(fail)
    \/ \E sel \in Selections(win), upd \in UpdateChoices : do_edit(sel, upd, {})
    \/ \E k \in DOMAIN workers : worker_start(k, {})
    \/ \E k \in DOMAIN workers, fail \in {{}, {"set_field"}} : worker_field(k, fail)
    \/ \E k \in DOMAIN workers, fail \in {{}, {"bulk"}} : worker_end(k, fail)
    \/ on_progress
    \/ \E fail \in MLoadFails : on_finished(fail)

SpecM == InitCovers /\ [][NextM]_vars

\* The library specification: the user opens directories, refreshes,
\* searches and pages; opening a library may fail.
OpenFails == {{}, {"open"}, {"sort"}}

NextO ==
    \/ \E path \in PathChoices, fail \in OpenFails : open_library(path, fail)
    \/ \E t \in MTexts : filter_books(t)
    \/ \E fail \in {{}} : do_search_refresh(fail)
    \/ \E fail \in {{}} : prev_page(fail)
    \/ \E fail \in {{}} : next_page(fail)
    \/ \E fail \in OpenFails : refresh_clicked(fail)

SpecO == InitCovers /\ [][NextO]_vars

\* The delete specification: rows are searched, paged and deleted; the
\* user may select nothing or answer No, and delete_books may raise.
DeleteReplies == {"Yes", "No"}
DeleteFails == {{}, {"remove_books"}}

NextX ==
    \/ \E t \in MTexts : filter_books(t)
    \/ do_search_refresh({})
    \/ prev_page({})
    \/ next_page({})
    \/ \E sel \in Selections(win), reply \in DeleteReplies, fail \in DeleteFails :
          delete_selected(sel, reply, fail)
    \/ \E fail \in MLoadFails : delete_msg_closed(fail)

SpecX == InitCovers /\ [][NextX]_vars

\* The pagination specification: a library of any size up to MaxLen is
\* loaded and paged through.
InitP ==
    /\ \E n \in 1..MaxLen : eng = Library(n)
    /\ win = LoadBooks(Window0, eng, FALSE, {})
    /\ workers = EmptyDict
    /\ sigq = <<>>
    /\ ops = 0

NextP ==
    \/ prev_page({})
    \/ next_page({})

SpecP == InitP /\ [][NextP]_vars

\* The concurrent-edit specification: a library is opened and the first
\* row is edited up to MaxEdits times, each edit with its own worker.
\* What the dialog returns for one book: the tags are always part of it.
EUpdateChoices == {<< <<"title", "b">>, <<"tags", {"t1"}>> >>, << <<"tags", {}>> >>}

InitE ==
    /\ eng = Engine0
    /\ win = LoadBooks(Window0, eng, FALSE, {})
    /\ workers = EmptyDict
    /\ sigq = <<>>
    /\ ops = MaxMutations - MaxEdits

NextE ==
    \/ \E sel \in Selections(win), upd \in EUpdateChoices, fail \in {{}, {"languages"}} :
          do_edit(sel, upd, fail)
    \/ \E k \in DOMAIN workers : worker_start(k, {})
    \/ \E k \in DOMAIN workers, fail \in {{}, {"set_field"}} : worker_field(k, fail)
    \/ \E k \in DOMAIN workers, fail \in {{}, {"bulk"}} : worker_end(k, fail)
    \/ on_progress
    \/ on_finished({})

SpecE == InitE /\ [][NextE]_vars

\* The worker specification: one edit of the first rows of the page, with
\* a date that parses or one that does not, and with engine calls of the
\* worker that may raise.
EditSizes == {1, 2, 3}
EditSelections(w) == {Slice(Rows(w), 0, n) : n \in EditSizes} \ {<<>>}
WUpdateChoices ==
    {<< <<"title", "b">>, <<"pubdate", <<2024, 2, 29>> >>, <<"tags", {"t1"}>> >>,
     << <<"title", "b">>, <<"pubdate", <<2023, 2, 29>> >>, <<"tags", {"t1"}>> >>}

InitW ==
    /\ eng = Engine0
    /\ win = LoadBooks(Window0, eng, FALSE, {})
    /\ workers = EmptyDict
    /\ sigq = <<>>
    /\ ops = MaxMutations - 1

NextW ==
    \/ \E t \in MTexts : filter_books(t)
    \/ do_search_refresh({})
    \/ \E sel \in EditSelections(win), upd \in WUpdateChoices : do_edit(sel, upd, {})
    \/ \E k \in DOMAIN workers, fail \in {{}, {"bulk"}} : worker_start(k, fail)
    \/ \E k \in DOMAIN workers, fail \in {{}, {"set_field"}} : worker_field(k, fail)
    \/ \E k \in DOMAIN workers, fail \in {{}, {"bulk"}} : worker_end(k, fail)
    \/ on_progress
    \/ on_finished({})

SpecW == InitW /\ [][NextW]_vars

\* The vocabulary specification: the 'invalid' facet is toggled, a text
\* is searched, the library is reloaded, and one edit gives the first row
\* a tag that no book had; the vocabulary fetches of a load may raise.
TUpdateChoices == {<< <<"tags", {"tx"}>> >>}
TLoadFails == {{}, {"languages"}, {"all_tags"}}

NextT ==
    \/ \E t \in MTexts : filter_books(t)
    \/ do_search_refresh({})
    \/ \E t \in TagPicks : tag_changed(t, {})
    \/ \E fail \in TLoadFails : refresh_clicked(fail)
    \/ \E sel \in Selections(win) \ {<<>>}, upd \in TUpdateChoices : do_edit(sel, upd, {})
    \/ \E k \in DOMAIN workers : worker_start(k, {})
    \/ \E k \in DOMAIN workers, fail \in {{}, {"set_field"}} : worker_field(k, fail)
    \/ \E k \in DOMAIN workers : worker_end(k, {})
    \/ on_progress
    \/ \E fail \in TLoadFails : on_finished(fail)

SpecT == InitW /\ [][NextT]_vars

\* The dialog specification: the first row of a page is opened in the
\* edit dialog and accepted as it is, tags.txt holding any of the
\* vocabularies TagFiles.
TagFiles == {<<>>, <<"t1">>, <<"tx">>, <<"t1", "tx">>}

NextD ==
    \/ \E l \in LangPicks : lang_changed(l, {})
    \/ next_page({})
    \/ prev_page({})
    \/ \E sel \in Selections(win), all_tags \in TagFiles : edit_accepted(sel, all_tags)
    \/ \E k \in DOMAIN workers : worker_start(k, {})
    \/ \E k \in DOMAIN workers : worker_field(k, {})
    \/ \E k \in DOMAIN workers : worker_end(k, {})
    \/ on_progress
    \/ on_finished({})

SpecD == InitW /\ [][NextD]_vars

\* The batch specification: one edit of the first n rows of a full page,
\* for every n, with no engine call raising.
BatchSelections(w) == {Slice(Rows(w), 0, n) : n \in 1..PAGE_SIZE}
BUpdateChoices == {<< <<"title", "b">>, <<"tags", {"t1"}>> >>}

NextB ==
    \/ \E sel \in BatchSelections(win), upd \in BUpdateChoices : do_edit(sel, upd, {})
    \/ \E k \in DOMAIN workers : worker_start(k, {})
    \/ \E k \in DOMAIN workers : worker_field(k, {})
    \/ \E k \in DOMAIN workers : worker_end(k, {})
    \/ on_progress
    \/ on_finished({})

SpecB == InitW /\ [][NextB]_vars

\* The restore specification: the trash holds MaxPaths directories, the
\* dialog is opened, some rows are checked and restored, each path being
\* in any of the states restore_books may find.
TrashLibrary ==
    [Engine0 EXCEPT !.trash = {[old |-> NumBooks + j, book |-> InitBook(j)] :
                                  j \in 1..MaxPaths},
                    !.next_id = NumBooks + MaxPaths + 1]

FoundChoices(n) == [1..n -> PathStates]

InitR ==
    /\ eng = TrashLibrary
    /\ win = LoadBooks(Window0, eng, FALSE, {})
    /\ workers = EmptyDict
    /\ sigq = <<>>
    /\ ops = MaxMutations - 1

NextR ==
    \/ browse_trash
    \/ \E paths \in CheckedPaths(eng) : \E found \in FoundChoices(Len(paths)) :
          restore_checked(paths, found)
    \/ trash_closed({})

SpecR == InitR /\ [][NextR]_vars

Spec == Init /\ [][Next]_vars


\* ================================================================ claims
\* The handlers that run refresh_table and nothing that invalidates.
RefreshEvents == {"refresh_table", "lang_changed", "tag_changed"}

\* C4: a non-empty filtered list of n ids has ceil(n / 50) pages; the
\* pages in order concatenate to the list, every page but the last holds
\* 50 ids and the last holds the rest; the table shows the current page.
C4_Pagination ==
    LET ids == win.filtered_ids
        n == Len(ids)
        total == win.total_pages
        RECURSIVE Concat(_)
        Concat(k) == IF k = 0 THEN <<>> ELSE Concat(k - 1) \o PageIds(ids, k - 1)
    IN win.refreshed /\ n >= 1 =>
          /\ total * 50 >= n
          /\ (total - 1) * 50 < n
          /\ Concat(total) = ids
          /\ \A p \in 0..(total - 2) : Len(PageIds(ids, p)) = 50
          /\ Len(PageIds(ids, total - 1)) = n - 50 * (total - 1)
          /\ ~win.raised => win.table = PageIds(ids, win.current_page)

\* The third and last page of 101 ids is shown: it holds one id.
C4_Witness ==
    /\ win.refreshed
    /\ Len(win.filtered_ids) = 101
    /\ win.current_page = 2
    /\ win.table = <<1>>

\* C5: after every refresh_table the page is the requested page clamped
\* into 0..total_pages-1, so 0 <= current_page, and current_page <
\* total_pages when there are pages; an empty result has no pages, page 0
\* and an empty table.
C5_PageClamp ==
    win.refreshed =>
        /\ win.current_page =
              (LET hi == IF win.requested_page <= win.total_pages - 1
                         THEN win.requested_page ELSE win.total_pages - 1
               IN IF hi >= 0 THEN hi ELSE 0)
        /\ win.current_page >= 0
        /\ win.total_pages > 0 => win.current_page < win.total_pages
        /\ win.filtered_ids = <<>> =>
              win.total_pages = 0 /\ win.current_page = 0 /\ win.table = <<>>

\* The second page was showing when a filter left a single page.
C5_Witness ==
    /\ win.refreshed
    /\ win.requested_page = 1
    /\ win.total_pages = 1
    /\ win.current_page = 0

\* The match-set of the query the last refresh_table ran with: the cached
\* entry (as last returned by the engine), or what the engine holds.
C6_MatchSet ==
    IF FinalQ(win) \in DOMAIN win.search_ids_cache
    THEN win.search_ids_cache[FinalQ(win)]
    ELSE EngineSearch(eng, QueryOf(win))

\* C6 as stated, for the runs in which no engine call raised: for a
\* non-empty query filtered_ids is exactly the sorted index restricted to
\* the match-set.
C6_Original ==
    win.refreshed /\ ~win.caught /\ FinalQ(win) # "" =>
        win.filtered_ids = SelectSeq(win.sorted_book_ids, LAMBDA b : b \in C6_MatchSet)

\* C6 amended: for a non-empty query filtered_ids is a subsequence of the
\* sorted index made of ids of the match-set, without repetition, so every
\* id of the shown page is in the sorted index; it is exactly the sorted
\* index restricted to the match-set when no engine call raised and the
\* 'invalid' facet is unchecked.
C6_FilterOrder ==
    win.refreshed /\ FinalQ(win) # "" =>
        /\ win.filtered_ids =
              SelectSeq(win.sorted_book_ids, LAMBDA b : b \in Range(win.filtered_ids))
        /\ Cardinality(Range(win.filtered_ids)) = Len(win.filtered_ids)
        /\ Range(win.filtered_ids) \subseteq C6_MatchSet
        /\ Range(win.table) \subseteq Range(win.sorted_book_ids)
        /\ ~win.caught /\ "invalid" \notin win.tag_checked =>
              win.filtered_ids =
                 SelectSeq(win.sorted_book_ids, LAMBDA b : b \in C6_MatchSet)

\* A cache hit for the text "a": the newest and the oldest book, newest first.
C6_Witness ==
    /\ win.refreshed
    /\ ~win.caught
    /\ "search" \notin Range(win.calls)
    /\ Len(win.filtered_ids) = 2
    /\ win.filtered_ids[1] > win.filtered_ids[2]
    /\ win.filtered_ids[2] = 1

\* No text but blanks, language 'all', no tag checked.
C7_EmptyQuery ==
    /\ \A i \in 1..Len(win.search_text) : win.search_text[i] = " "
    /\ win.lang_target = "all"
    /\ win.tag_checked = {}

\* C7: with an empty query refresh_table returns the sorted index as it
\* is, calls no search and adds no cache entry.
C7_NoSearch ==
    /\ [](win.refreshed /\ C7_EmptyQuery =>
             /\ win.filtered_ids = win.sorted_book_ids
             /\ "search" \notin Range(win.calls))
    /\ [][win' # win /\ win'.refreshed /\ C7_EmptyQuery' =>
             \/ win'.search_ids_cache = win.search_ids_cache
             \/ win'.search_ids_cache = EmptyDict]_vars

\* The timer fired on a text of one blank while the cache held an entry.
C7_Witness ==
    /\ win.refreshed
    /\ win.event = "refresh_table"
    /\ win.search_text = <<" ">>
    /\ C7_EmptyQuery
    /\ win.search_ids_cache # EmptyDict
    /\ win.filtered_ids = win.sorted_book_ids
    /\ win.filtered_ids # <<>>


\* C1 as stated: when refresh_table runs again with the non-empty query
\* string of the previous run and nothing was invalidated in between, it
\* calls no search and yields the filtered_ids of the previous run.
C1_Original ==
    [][(/\ win' # win
        /\ win'.refreshed
        /\ win'.event \in RefreshEvents
        /\ win'.last_run.q # ""
        /\ win'.last_run.q = win.last_run.q)
       => /\ "search" \notin Range(win'.calls)
          /\ win'.filtered_ids = win.filtered_ids]_vars

\* C1 amended: when refresh_table runs again with the non-empty query
\* string of a previous run none of whose engine calls raised, and nothing
\* was invalidated in between, it calls no search and leaves the cache as
\* it is; when the 'invalid' facet is unchecked in both runs it yields the
\* filtered_ids of the previous run.
C1_CacheHit ==
    [][(/\ win' # win
        /\ win'.refreshed
        /\ win'.event \in RefreshEvents
        /\ win'.last_run.q # ""
        /\ win'.last_run.q = win.last_run.q
        /\ ~win.last_run.caught)
       => /\ "search" \notin Range(win'.calls)
          /\ win'.search_ids_cache = win.search_ids_cache
          /\ (~win.last_run.invalid /\ ~win'.last_run.invalid
                => win'.filtered_ids = win.filtered_ids)]_vars

\* The language facet 'none' was filtered on again from the cache: the
\* one book without a language, and no search call.
C1_Witness ==
    /\ win.refreshed
    /\ win.event \in RefreshEvents
    /\ win.lang_target = "none"
    /\ ~win.last_run.invalid
    /\ ~win.caught
    /\ FinalQ(win) \in DOMAIN win.search_ids_cache
    /\ "search" \notin Range(win.calls)
    /\ win.filtered_ids = <<2>>

C2_DeleteInvalidates ==
    /\ [][win'.event = "delete_selected" /\ ops' > ops =>
             /\ win'.search_ids_cache = EmptyDict
             /\ win'.cached_sorted_ids = <<>>]_vars
    /\ [](win.refreshed /\ win.since_delete = "first" =>
             /\ win.found_empty
             /\ win.last_run.q # "" => "search" \in Range(win.calls))

\* The timer fired while the message box of a delete was open, with a
\* text typed before the delete: a fresh search.
C2_Witness ==
    /\ win.mode = "delete_msg"
    /\ win.refreshed
    /\ win.since_delete = "first"
    /\ win.found_empty
    /\ win.last_run.q # ""
    /\ "search" \in Range(win.calls)
    /\ win.filtered_ids # <<>>

\* C3: once the finished signal of a bulk edit was handled, whether it
\* reported success or failure, the search cache is empty, or was empty
\* when the refresh_table of the handler started.
C3_EditInvalidates ==
    win.event = "on_finished" =>
        IF win.refreshed THEN win.found_empty ELSE win.search_ids_cache = EmptyDict

\* C8: load_books calls the engine's sort exactly when keep_page is
\* false or no index is cached; when that call returns, the sorted index
\* is the engine's list and no earlier cache entry survives; when
\* keep_page is true and an index is cached, that index is reused with no
\* sort call.  An entry leaves the cache only when all of them do.
C8_LoadIndex ==
    /\ [][win' # win /\ win'.load # "none" /\ win'.manager = "open" =>
             LET rebuild == win'.load = "reset" \/ win.cached_sorted_ids = <<>>
                 sort_called == "multisort" \in Range(win'.calls)
                 sort_raised == win'.calls[Len(win'.calls)] = "multisort"
             IN /\ sort_called <=> rebuild
                /\ rebuild /\ ~sort_raised =>
                      /\ win'.sorted_book_ids = Multisort(eng', FALSE)
                      /\ win'.cached_sorted_ids = <<win'.sorted_book_ids>>
                      /\ IF win'.refreshed
                         THEN /\ win'.found_empty
                              /\ DOMAIN win'.search_ids_cache \subseteq {win'.last_run.q}
                         ELSE win'.search_ids_cache = EmptyDict
                /\ ~rebuild =>
                      /\ win'.sorted_book_ids = win.sorted_book_ids
                      /\ win'.sorted_book_ids = win.cached_sorted_ids[1]
                      /\ win'.cached_sorted_ids = win.cached_sorted_ids]_vars
    /\ [][(\E k \in DOMAIN win.search_ids_cache : k \notin DOMAIN win'.search_ids_cache) =>
             \/ win'.search_ids_cache = EmptyDict
             \/ win'.refreshed /\ win'.found_empty]_vars

\* load_books(keep_page=True) ran with an index cached, on the second
\* page: no sort call, the page kept.
C8_Witness ==
    /\ win.load = "keep"
    /\ win.refreshed
    /\ "multisort" \notin Range(win.calls)
    /\ win.cached_sorted_ids = <<win.sorted_book_ids>>
    /\ win.current_page = 1

\* The sorted index changes only into the engine's current list; the
\* load_books after a delete and after the trash dialog calls the sort.
C9_Rebuilds ==
    /\ win'.sorted_book_ids # win.sorted_book_ids =>
          win'.sorted_book_ids = Multisort(eng', FALSE)
    /\ win'.event = "delete_selected" /\ ops' > ops => win'.cached_sorted_ids = <<>>
    /\ win' # win /\ win'.event \in {"delete_selected", "browse_trash"} /\ win'.load # "none" =>
          /\ "multisort" \in Range(win'.calls)
          /\ win'.refreshed =>
                /\ win'.sorted_book_ids = Multisort(eng', FALSE)
                /\ win'.cached_sorted_ids = <<win'.sorted_book_ids>>

\* C9 as stated: the sorted index is dropped and rebuilt after a delete
\* and after the trash dialog closes, and a completed bulk edit leaves it
\* unchanged and calls no sort.
C9_Original ==
    [][/\ C9_Rebuilds
       /\ win' # win /\ win'.event = "on_finished" =>
             /\ win'.sorted_book_ids = win.sorted_book_ids
             /\ "multisort" \notin Range(win'.calls)]_vars

\* C9 amended: the sorted index is dropped and rebuilt after a delete and
\* after the trash dialog closes; a completed bulk edit leaves it
\* unchanged and calls no sort when an index is cached, and rebuilds it
\* when none is.
C9_IndexRebuild ==
    [][/\ C9_Rebuilds
       /\ win' # win /\ win'.event = "on_finished" /\ win.cached_sorted_ids # <<>> =>
             /\ win'.sorted_book_ids = win.sorted_book_ids
             /\ "multisort" \notin Range(win'.calls)
       /\ win' # win /\ win'.event = "on_finished" /\ win.cached_sorted_ids = <<>> =>
             win'.load = "keep" <=> "multisort" \in Range(win'.calls)]_vars

\* The load_books after a delete rebuilt the index without the deleted book.
C9_Witness ==
    /\ win.event = "delete_selected"
    /\ win.mode = "idle"
    /\ win.refreshed
    /\ "multisort" \in Range(win.calls)
    /\ Len(win.sorted_book_ids) = NumBooks - 1
    /\ win.sorted_book_ids = Multisort(eng, FALSE)


\* The handlers of the main window that refresh the view.
ViewEvents == {"refresh_table", "lang_changed", "tag_changed", "change_language",
               "load_books"}

\* C11: on an opened library no failure of an engine call made while the
\* view is refreshed (search, tag fetch, get_metadata_batch, language and
\* tag vocabulary fetch) leaves the event handler: every one is caught.
C11_AllCaught ==
    win.event \in ViewEvents /\ win.manager = "open" => ~win.raised

\* C12: whenever manager.search raises while refresh_table filters, a
\* message is shown to the user by the handler that ran it.
C12_SearchErrorShown ==
    /\ win.refreshed
    /\ win.last_run.caught
    /\ "search" \in Range(win.calls)
    /\ "all_field_for" \notin Range(win.calls)
    => win.msgs # <<>>

\* C13: a search text sent to the engine while the debounce timer is
\* pending is the settled one: the user's next keystroke does not replace
\* it, so no intermediate text of a burst is ever executed.
C13_OnlySettledText ==
    [][(/\ win.timer_active
        /\ win.refreshed
        /\ "search" \in Range(win.calls)
        /\ Strip(win.search_text) # <<>>)
       => ~(/\ win'.event = "filter_books"
            /\ win'.timer_active
            /\ Strip(win'.search_text) # Strip(win.search_text))]_vars

\* C14: at most one UpdateWorker is active at any time: from its start
\* until its finished signal was handled no second worker is started.
C14_OneWorker ==
    Cardinality(DOMAIN workers) <= 1

\* The position of the first entry of a worker's trace with the given
\* call or signal, 0 when there is none.
FirstAt(trace, op) ==
    IF \E j \in 1..Len(trace) : trace[j][1] = op
    THEN CHOOSE j \in 1..Len(trace) :
            trace[j][1] = op /\ \A i \in 1..(j - 1) : trace[i][1] # op
    ELSE 0

\* C15: a step of UpdateWorker.run leaves every field of the window
\* (sorted index, search cache, filtered_ids, current_page, ...) as it
\* is; the caches are invalidated for an edit only by the finished
\* handler, and the worker whose signal it handles has called
\* end_bulk_update before it emitted finished.
C15_WorkerIsolation ==
    [][/\ (\E k \in DOMAIN workers \cap DOMAIN workers' :
              workers'[k].trace # workers[k].trace) => win' = win
       /\ (/\ DOMAIN workers # {}
           /\ win'.search_ids_cache # win.search_ids_cache
           /\ win'.search_ids_cache = EmptyDict) => win'.event = "on_finished"
       /\ (win' # win /\ win'.event = "on_finished" /\ win'.load # "none") =>
              /\ sigq # <<>>
              /\ Head(sigq).name = "finished"
              /\ LET trace == workers[Head(sigq).from].trace
                 IN /\ FirstAt(trace, "end_bulk_update") > 0
                    /\ FirstAt(trace, "end_bulk_update") < FirstAt(trace, "finished")]_vars

\* The finished handler ran load_books(keep_page=True) on an emptied
\* cache: the text filter was searched again.
C15_Witness ==
    /\ win.event = "on_finished"
    /\ win.load = "keep"
    /\ "search" \in Range(win.calls)
    /\ win.search_ids_cache # EmptyDict

\* The positions of a worker's trace that hold the given call or signal.
Positions(trace, op) == {j \in 1..Len(trace) : trace[j][1] = op}

\* C16: in every run in which start_bulk_update returned, end_bulk_update
\* is called exactly once, after the last set_field attempt and before
\* the finished signal, whether or not a set_field raised; every run
\* emits exactly one finished signal, after all its progress signals.
C16_CommitOnce ==
    \A k \in DOMAIN workers :
        LET wk == workers[k]
            t == wk.trace
            ends == Positions(t, "end_bulk_update")
            fins == Positions(t, "finished")
            started == wk.pc \in {"loop", "end"}
                       \/ (wk.pc = "done" /\ Positions(t, "set_field") # {})
                       \/ (wk.pc = "done" /\ Positions(t, "progress") # {})
        IN /\ wk.pc # "done" => ends = {} /\ fins = {}
           /\ wk.pc = "done" =>
                 /\ fins = {Len(t)}
                 /\ \A j \in Positions(t, "progress") : j < Len(t)
           /\ wk.pc = "done" /\ started =>
                 /\ Cardinality(ends) = 1
                 /\ ends = {Len(t) - 1}
                 /\ \A j \in Positions(t, "set_field") : \A e \in ends : j < e

\* A run whose set_field raised on the second book has committed and
\* reported.
C16_Witness ==
    \E k \in DOMAIN workers :
        /\ workers[k].pc = "done"
        /\ workers[k].error
        /\ workers[k].i = 2
        /\ Positions(workers[k].trace, "end_bulk_update") # {}
        /\ Positions(workers[k].trace, "progress") # {}

\* C17: a run in which an engine call raised (a set_field for any field,
\* the date field included once its text parsed, or start_bulk_update or
\* end_bulk_update) reports finished(False, ...) and never finished(True).
C17_FailureReported ==
    \A k \in DOMAIN workers :
        workers[k].pc = "done" /\ workers[k].failed =>
            \A j \in Positions(workers[k].trace, "finished") :
                workers[k].trace[j][2] = 0

\* The entries of a worker's trace with the given call or signal, in order.
Entries(trace, op) == SelectSeq(trace, LAMBDA e : e[1] = op)

\* C18: in an error-free run over n >= 1 ids the ids are
\* processed in the given order, every field of an id before any field of
\* the next, with exactly one progress signal per id; the k-th value is
\* floor(100 * k / n), the values never decrease and the last is 100.
C18_BatchProgress ==
    \A k \in DOMAIN workers :
        LET wk == workers[k]
            n == Len(wk.bids)
            fields == Len(wk.updates)
            writes == Entries(wk.trace, "set_field")
            values == Entries(wk.trace, "progress")
        IN wk.pc = "done" /\ ~wk.failed =>
              /\ Len(writes) = n * fields
              /\ \A j \in 1..Len(writes) :
                    /\ writes[j][2] = wk.bids[((j - 1) \div fields) + 1]
                    /\ writes[j][3] = wk.updates[((j - 1) % fields) + 1][1]
              /\ Len(values) = n
              /\ \A j \in 1..n : values[j][2] = (100 * j) \div n
              /\ \A j \in 1..(n - 1) : values[j][2] <= values[j + 1][2]
              /\ values[n][2] = 100

\* The mapping of the worker holds a pubdate text that is not a date.
BadDate(wk) ==
    \E j \in 1..Len(wk.updates) :
        wk.updates[j][1] = "pubdate" /\ ~ValidDate(wk.updates[j][2])

\* C19: when the mapping holds a pubdate text that is not a valid date,
\* no pubdate write is issued for any book at any time; if no engine call
\* raises, every other field is written for every book, one progress
\* signal is emitted per book, and the run ends with end_bulk_update and
\* finished(True).
C19_BadDateSkipped ==
    \A k \in DOMAIN workers :
        LET wk == workers[k]
            t == wk.trace
        IN BadDate(wk) =>
              /\ \A j \in Positions(t, "set_field") : t[j][3] # "pubdate"
              /\ \A b \in Range(wk.bids) : eng.lib[b].pubdate = <<>>
              /\ wk.pc = "done" /\ ~wk.failed =>
                    /\ \A i \in 1..Len(wk.bids), j \in 1..Len(wk.updates) :
                          wk.updates[j][1] # "pubdate" =>
                             /\ \E x \in Positions(t, "set_field") :
                                   t[x][2] = wk.bids[i] /\ t[x][3] = wk.updates[j][1]
                             /\ wk.updates[j][1] = "title" =>
                                   eng.lib[wk.bids[i]].title = wk.updates[j][2]
                             /\ wk.updates[j][1] = "tags" =>
                                   eng.lib[wk.bids[i]].tags = wk.updates[j][2]
                    /\ Cardinality(Positions(t, "progress")) = Len(wk.bids)
                    /\ t[Len(t) - 1][1] = "end_bulk_update"
                    /\ t[Len(t)] = <<"finished", 1, "">>

\* Three books were edited with a date that does not parse: six writes,
\* three progress signals, success.
C19_Witness ==
    \E k \in DOMAIN workers :
        /\ BadDate(workers[k])
        /\ workers[k].pc = "done"
        /\ ~workers[k].failed
        /\ Len(workers[k].bids) = 3
        /\ Cardinality(Positions(workers[k].trace, "set_field")) = 6
        /\ workers[k].trace[Len(workers[k].trace)] = <<"finished", 1, "">>

\* C20: restore_books handles every path on its own: whatever it finds at
\* a path (no directory, no book file, a path it cannot list, an engine
\* error while inserting), it goes on to every later path and never
\* leaves by an exception.
C20_RestoreIndependent ==
    win.event = "restore_selected" =>
        /\ ~win.caught
        /\ win.restore.attempted = win.restore.paths

\* C21: restore_books removes a source directory exactly when the entry,
\* every format file and the cover were inserted; the returned count is
\* the number of source directories it removed; a parent directory is
\* removed only when no other book directory is left in it.
C21_RemoveIffInserted ==
    win.event = "restore_selected" =>
        /\ win.restore.removed = win.restore.inserted
        /\ win.restore.restored = Cardinality(win.restore.removed)
        /\ \A item \in eng.trash : AuthorDir(item) \notin win.restore.parents


\* C22: when the engine fails to open the chosen library in open_library
\* or load_books, nothing has changed: library_path, manager, the sorted
\* index, the search cache, filtered_ids and current_page are as they were
\* before the attempt.
C22_FailedOpenChangesNothing ==
    [][(/\ win' # win
        /\ win'.event \in {"open_library", "load_books"}
        /\ win'.caught
        /\ win'.manager = "none")
       => /\ win'.library_path = win.library_path
          /\ win'.manager = win.manager
          /\ win'.sorted_book_ids = win.sorted_book_ids
          /\ win'.cached_sorted_ids = win.cached_sorted_ids
          /\ win'.search_ids_cache = win.search_ids_cache
          /\ win'.filtered_ids = win.filtered_ids
          /\ win'.current_page = win.current_page]_vars


\* C23: a successful delete of the ids B removes from the cover cache
\* exactly the entries (pixmap key and thumbnail key) of the ids in B and
\* keeps every other entry; no other step removes an entry; so no entry
\* of a deleted id is left in the cache.
C23_CoversDroppedOnDelete ==
    /\ [](\A k \in DOMAIN win.pixmap_cache : k[2] \in DOMAIN eng.lib)
    /\ [][win' # win =>
            IF win'.event = "delete_selected" /\ win'.mode = "delete_msg"
            THEN LET B == DOMAIN eng.lib \ DOMAIN eng'.lib
                 IN /\ DOMAIN win'.pixmap_cache =
                           {k \in DOMAIN win.pixmap_cache : k[2] \notin B}
                    /\ \A k \in DOMAIN win'.pixmap_cache :
                           win'.pixmap_cache[k] = win.pixmap_cache[k]
            ELSE \A k \in DOMAIN win.pixmap_cache :
                    /\ k \in DOMAIN win'.pixmap_cache
                    /\ win'.pixmap_cache[k] = win.pixmap_cache[k]]_vars

\* A book whose cover was cached has just been deleted: its two entries
\* are gone and those of another book are still there.
C23_Witness ==
    /\ win.event = "delete_selected"
    /\ win.mode = "delete_msg"
    /\ NumBooks \notin DOMAIN eng.lib
    /\ GetCover(EngineCovers, NumBooks) # 0
    /\ <<"id", NumBooks>> \notin DOMAIN win.pixmap_cache
    /\ <<"thumb", NumBooks>> \notin DOMAIN win.pixmap_cache
    /\ {<<"id", NumBooks - 1>>, <<"thumb", NumBooks - 1>>} \subseteq DOMAIN win.pixmap_cache


\* C24: the 'invalid' tag facet is no clause of the query, so the query
\* string, the search cache key and the engine's search are the same with
\* and without it; an entry stored by the run is the engine's match-set of
\* that query; and filtered_ids is the text-and-facet-filtered sequence
\* when the facet is unchecked, and its ids that carry a tag outside
\* valid_tags, in order, when it is checked.
C24_InvalidIsLocal ==
    [][(win' # win /\ win'.refreshed /\ ~win'.last_run.caught) =>
        LET w == win'
            q == FinalQ(w)
            base == IF q = "" THEN w.sorted_book_ids
                    ELSE Intersect(w.sorted_book_ids, w.search_ids_cache[q])
        IN /\ TagClause("invalid") \notin Range(QueryOf(w))
           /\ q = FinalQ([w EXCEPT !.tag_checked = @ \ {"invalid"}])
           /\ q # "" => q \in DOMAIN w.search_ids_cache
           /\ \A k \in DOMAIN w.search_ids_cache \ DOMAIN win.search_ids_cache :
                  /\ k = q
                  /\ w.search_ids_cache[k] = EngineSearch(eng', QueryOf(w))
           /\ w.filtered_ids =
                  IF "invalid" \in w.tag_checked
                  THEN SelectSeq(base, LAMBDA b :
                           \E t \in TagMap(eng', base)[b] : t \notin w.valid_tags)
                  ELSE base]_vars

\* The facet is checked with a query: the books shown are those of the
\* cached match-set that carry a tag outside the vocabulary, fewer than
\* the match-set.
C24_Witness ==
    /\ win.refreshed
    /\ ~win.last_run.caught
    /\ "invalid" \in win.tag_checked
    /\ FinalQ(win) \in DOMAIN win.search_ids_cache
    /\ win.filtered_ids # <<>>
    /\ Len(win.filtered_ids) < Cardinality(win.search_ids_cache[FinalQ(win)])


\* C25: every load_books that completes leaves valid_tags equal to the
\* engine's tag vocabulary as it is then; when the load rebuilt the sorted
\* index, index and vocabulary are those of the same engine state, so the
\* 'invalid' filter of that load finds no book of the index with a tag
\* outside the vocabulary.
C25_VocabularyRefreshed ==
    [][(win' # win /\ win'.load # "none" /\ "msg_load_failed" \notin Range(win'.msgs)) =>
        /\ win'.valid_tags = Range(AllTags(eng'))
        /\ "multisort" \in Range(win'.calls) =>
              /\ win'.sorted_book_ids = Multisort(eng', FALSE)
              /\ \A b \in Range(win'.sorted_book_ids) :
                    eng'.lib[b].tags \subseteq win'.valid_tags
              /\ "invalid" \in win'.tag_checked => win'.filtered_ids = <<>>]_vars

\* A reload has rebuilt the index after an edit gave a book a new tag,
\* with the 'invalid' facet checked: the new tag is in the vocabulary.
C25_Witness ==
    /\ win.load = "reset"
    /\ "msg_load_failed" \notin Range(win.msgs)
    /\ "multisort" \in Range(win.calls)
    /\ "invalid" \in win.tag_checked
    /\ "tx" \in win.valid_tags
    /\ \E b \in DOMAIN eng.lib : "tx" \in eng.lib[b].tags


\* C26: get_metadata_batch makes one all_field_for call per field whatever
\* the number of ids, each with exactly the ids of the page, makes no
\* call for an empty page, and returns a dict whose keys are the page's
\* ids.
C26_BatchedMetadata ==
    (win.refreshed /\ ~win.raised) =>
        LET page_ids == PageIds(win.filtered_ids, win.current_page)
        IN /\ win.batch.fields = IF page_ids = <<>> THEN <<>> ELSE BatchFields
           /\ win.batch.ids = IF page_ids = <<>> THEN {} ELSE {page_ids}
           /\ win.books = Range(page_ids)

\* A page shorter than a full one was fetched with as many calls as a
\* full page takes, one per field.
C26_Witness ==
    /\ win.refreshed
    /\ ~win.raised
    /\ Len(PageIds(win.filtered_ids, win.current_page)) \in 1..(PAGE_SIZE - 1)
    /\ Len(win.batch.fields) = Len(BatchFields)
    /\ Cardinality(win.books) = Len(PageIds(win.filtered_ids, win.current_page))


\* C27: the handler of finished(True) keeps current_page, reduced only by
\* the clamp to the last page of the re-filtered result; a load_books of
\* the refresh button, of a delete or of the trash dialog that completes
\* leaves current_page 0.
C27_EditKeepsPage ==
    [][win' # win =>
        /\ (win'.event = "on_finished" /\ "msg_update_success" \in Range(win'.msgs)) =>
              /\ win'.current_page = Max(0, Min(win.current_page, win'.total_pages - 1))
              /\ win.current_page < win'.total_pages => win'.current_page = win.current_page
        /\ (/\ win'.event \in {"load_books", "delete_selected", "browse_trash"}
            /\ win'.load # "none"
            /\ "msg_load_failed" \notin Range(win'.msgs)) =>
              win'.current_page = 0]_vars

\* A successful edit was made on the second page and the list is still
\* on the second page when its finished(True) handler has reloaded it.
C27_Witness ==
    /\ win.event = "on_finished"
    /\ "msg_update_success" \in Range(win.msgs)
    /\ win.load = "keep"
    /\ ~win.caught
    /\ win.current_page = 1


\* C28: with a library open, the pixmap the cover cache holds for an id
\* shown in the table is the cover that id has in the library that is
\* open now, also after open_library has switched to another library.
C28_CoverOfOpenLibrary ==
    win.manager = "open" =>
        \A b \in Range(win.table) :
            <<"id", b>> \in DOMAIN win.pixmap_cache =>
                win.pixmap_cache[<<"id", b>>] = GetCover(eng, b)


\* C29: the edit dialog of a single book accepted without a change leaves
\* the tags of that book in the engine as they were, whatever tags the
\* book has and whatever vocabulary the dialog offers.
C29_UnchangedAcceptKeepsTags ==
    \A b \in DOMAIN eng.lib : eng.lib[b].tags = Engine0.lib[b].tags


\* C30: a restore_books in which no path was inserted whole and some path
\* failed after its entry was created (add_format or set_cover raised)
\* leaves the set of ids of the library as it was, so that a second
\* restore of the directory, which is still in the trash, adds the book
\* once.
C30_PartialRestoreAddsNothing ==
    [][(/\ win' # win
        /\ win'.event = "restore_selected"
        /\ win'.restore.partial # {}
        /\ win'.restore.inserted = {})
       => DOMAIN eng'.lib = DOMAIN eng.lib]_vars


\* C31: while a worker is between start_bulk_update and end_bulk_update,
\* no refresh_table of the interactive thread reads the engine (search,
\* tag fetch, metadata batch) or stores a search cache entry.
C31_NoReadsDuringBulk ==
    [][(/\ win' # win
        /\ win'.refreshed
        /\ \E k \in DOMAIN workers : workers[k].pc \in {"loop", "end"})
       => /\ win'.calls = <<>>
          /\ win'.search_ids_cache = win.search_ids_cache]_vars


\* C32: when delete_selected finds nothing selected, is answered No, or
\* delete_books raises, the engine has deleted nothing and the sorted
\* index, the search cache, the cover cache, filtered_ids and
\* current_page are as before the handler.
C32_FailedDeleteChangesNothing ==
    [][(/\ win' # win
        /\ win.mode = "idle"
        /\ win'.event = "delete_selected"
        /\ "msg_delete_success" \notin Range(win'.msgs))
       => /\ eng' = eng
          /\ win'.sorted_book_ids = win.sorted_book_ids
          /\ win'.cached_sorted_ids = win.cached_sorted_ids
          /\ win'.search_ids_cache = win.search_ids_cache
          /\ win'.pixmap_cache = win.pixmap_cache
          /\ win'.filtered_ids = win.filtered_ids
          /\ win'.current_page = win.current_page]_vars

\* delete_books has raised on the second page with a filled search
\* cache and cover cache.
C32_Witness ==
    /\ win.event = "delete_selected"
    /\ "msg_delete_failed" \in Range(win.msgs)
    /\ win.caught
    /\ win.search_ids_cache # EmptyDict
    /\ win.pixmap_cache # EmptyDict
    /\ win.cached_sorted_ids # <<>>
    /\ win.current_page = 1


\* C33: with the 'invalid' facet checked, every load_books that completes
\* ends with an empty filtered_ids; every refresh_table run while
\* valid_tags is the set of tags the library's books carry ends with an
\* empty filtered_ids; and a run that ends with a non-empty filtered_ids
\* finds a book carrying a tag that valid_tags lacks.
C33_InvalidEmptyWhenFresh ==
    [][(win' # win /\ win'.refreshed /\ "invalid" \in win'.tag_checked) =>
        LET carried == UNION {eng'.lib[b].tags : b \in DOMAIN eng'.lib}
        IN /\ (win'.load # "none" /\ "msg_load_failed" \notin Range(win'.msgs))
                 => win'.filtered_ids = <<>>
           /\ win'.valid_tags = carried => win'.filtered_ids = <<>>
           /\ win'.filtered_ids # <<>> =>
                 /\ win'.valid_tags # carried
                 /\ \A b \in Range(win'.filtered_ids) :
                       /\ b \in DOMAIN eng'.lib
                       /\ ~(eng'.lib[b].tags \subseteq win'.valid_tags)]_vars

\* The facet is checked by the user after an edit gave a book a new tag
\* and the reload took it into the vocabulary: no row is shown although
\* the index holds tagged books.
C33_Witness ==
    /\ win.event = "tag_changed"
    /\ win.refreshed
    /\ ~win.last_run.caught
    /\ "invalid" \in win.tag_checked
    /\ win.valid_tags = {"t1", "tx"}
    /\ win.valid_tags = UNION {eng.lib[b].tags : b \in DOMAIN eng.lib}
    /\ win.sorted_book_ids # <<>>
    /\ win.filtered_ids = <<>>

=============================================================================
